---- MODULE Spec2Model ----
(***************************************************************************)
(* Model of ip.py: the line extractor (collect_candidates and its helpers), *)
(* the reachability prober, the probe scheduler run_concurrent_tests on a   *)
(* ThreadPoolExecutor, write_output and main.                               *)
(*                                                                          *)
(* A line is a sequence of one-character strings, a text is the sequence of *)
(* its lines (what text.splitlines() returns).                              *)
(***************************************************************************)
EXTENDS Integers, Sequences, FiniteSets, TLC

(***************************************************************************)
(* Bounds of the model.                                                     *)
(***************************************************************************)
\* longest source text, in lines, the extractor is checked on
MaxRawLines == 2
\* longest source text, in lines, the whole pipeline is run on
MaxLines == 3
\* largest per-country quota of the quota tables the pipeline is run with
MaxQuota == 2
\* the pool limit MAX_WORKERS of the runs: ip.py sets 8, the runs are checked
\* with a smaller limit so that a text has more candidates than workers
MAX_WORKERS == 2

(***************************************************************************)
(* Module constants of ip.py.                                               *)
(***************************************************************************)
COUNTRIES == <<"sg", "hk", "jp", "tw", "kr">>

CountrySet == {COUNTRIES[i] : i \in 1..Len(COUNTRIES)}

(***************************************************************************)
(* Characters.                                                              *)
(***************************************************************************)
DigitVal == [ch \in {"0", "1", "2", "3", "4", "5", "6", "7", "8", "9"} |->
               CASE ch = "0" -> 0 [] ch = "1" -> 1 [] ch = "2" -> 2
                 [] ch = "3" -> 3 [] ch = "4" -> 4 [] ch = "5" -> 5
                 [] ch = "6" -> 6 [] ch = "7" -> 7 [] ch = "8" -> 8
                 [] ch = "9" -> 9]

IsDigit(ch) == ch \in DOMAIN DigitVal

UpperToLower == [ch \in {"S", "G", "H", "K", "J", "P", "T", "W", "R", "X"} |->
                   CASE ch = "S" -> "s" [] ch = "G" -> "g" [] ch = "H" -> "h"
                     [] ch = "K" -> "k" [] ch = "J" -> "j" [] ch = "P" -> "p"
                     [] ch = "T" -> "t" [] ch = "W" -> "w" [] ch = "R" -> "r"
                     [] ch = "X" -> "x"]

LowerLetters == {"s", "g", "h", "k", "j", "p", "t", "w", "r", "x"}

\* str.lower() on one character
LowerChar(ch) == IF ch \in DOMAIN UpperToLower THEN UpperToLower[ch] ELSE ch

\* str.lower()
lower(s) == [i \in 1..Len(s) |-> LowerChar(s[i])]

\* the characters str.strip() removes
IsSpace(ch) == ch \in {" ", "\t"}

\* \w of the re module: the characters on neither side of which \b holds
IsWordChar(ch) == IsDigit(ch) \/ ch \in LowerLetters \/ ch \in DOMAIN UpperToLower
                    \/ ch = "_"

\* raw.strip(): the line without its leading and trailing whitespace
strip(s) ==
  LET keep == {i \in 1..Len(s) : ~IsSpace(s[i])}
  IN  IF keep = {} THEN <<>>
      ELSE LET lo == CHOOSE i \in keep : \A j \in keep : i <= j
               hi == CHOOSE i \in keep : \A j \in keep : j <= i
           IN  SubSeq(s, lo, hi)

\* sub occurs in s starting at position i
OccursAt(sub, s, i) ==
  /\ i >= 1
  /\ i + Len(sub) - 1 <= Len(s)
  /\ \A k \in 1..Len(sub) : s[i + k - 1] = sub[k]

\* Python's "sub in s"
Contains(sub, s) == \E i \in 1..Len(s) : OccursAt(sub, s, i)

\* the two letters of a country code, as characters: "sg" -> <<"s", "g">>
TagChars(c) ==
  CASE c = "sg" -> <<"s", "g">>
    [] c = "hk" -> <<"h", "k">>
    [] c = "jp" -> <<"j", "p">>
    [] c = "tw" -> <<"t", "w">>
    [] c = "kr" -> <<"k", "r">>

(***************************************************************************)
(* PAT_TAG = re.compile(r'#(?:sg|hk|jp|tw|kr)\b', re.IGNORECASE)            *)
(***************************************************************************)
\* PAT_TAG matches at position i with country code c: '#', the code in either
\* case, then a word boundary (the end of the line or a non-word character)
TagTokenAt(c, line, i) ==
  /\ OccursAt(<<"#">> \o TagChars(c), lower(line), i)
  /\ (i + 3 > Len(line) \/ ~IsWordChar(line[i + 3]))

PatTagMatchesAt(line, i) == \E c \in CountrySet : TagTokenAt(c, line, i)

\* PAT_TAG.search(line) is not None
PAT_TAG_search(line) == \E i \in 1..Len(line) : PatTagMatchesAt(line, i)

\* the country codes PAT_TAG can match somewhere in the line
TokenTags(line) ==
  {c \in CountrySet : \E i \in 1..Len(line) : TagTokenAt(c, line, i)}

(***************************************************************************)
(* primary_tag_of_line                                                      *)
(***************************************************************************)
NoTag == "None"

RECURSIVE FirstTagFrom(_, _)
FirstTagFrom(low, k) ==
  IF k > Len(COUNTRIES) THEN NoTag
  ELSE IF Contains(<<"#">> \o TagChars(COUNTRIES[k]), low) THEN COUNTRIES[k]
  ELSE FirstTagFrom(low, k + 1)

primary_tag_of_line(line) == FirstTagFrom(lower(line), 1)

(***************************************************************************)
(* RE_IPV4 = re.compile(r'(\d{1,3}(?:\.\d{1,3}){3})(?:/\d{1,2})?')          *)
(***************************************************************************)
\* s[i..i+n-1] lies in s and is all digits
DigitRun(s, i, n) ==
  /\ i + n - 1 <= Len(s)
  /\ \A k \in 0..(n - 1) : IsDigit(s[i + k])

IsDot(s, i) == i <= Len(s) /\ s[i] = "."

\* the lengths <<a, b, c, d>> of the four digit groups with which group 1 of
\* RE_IPV4 matches at position i
IPv4Lens(s, i) ==
  {t \in (1..3) \X (1..3) \X (1..3) \X (1..3) :
     /\ DigitRun(s, i, t[1])
     /\ IsDot(s, i + t[1])
     /\ DigitRun(s, i + t[1] + 1, t[2])
     /\ IsDot(s, i + t[1] + t[2] + 1)
     /\ DigitRun(s, i + t[1] + t[2] + 2, t[3])
     /\ IsDot(s, i + t[1] + t[2] + t[3] + 2)
     /\ DigitRun(s, i + t[1] + t[2] + t[3] + 3, t[4])}

\* t comes before u in the order in which the greedy quantifiers try them
LexGE(t, u) ==
  \/ t = u
  \/ \E k \in 1..4 : t[k] > u[k] /\ \A j \in 1..(k - 1) : t[j] = u[j]

\* RE_IPV4.search(line): <<start, lengths>> of the leftmost, greedy match, or
\* <<0, <<>>>> when there is none. The optional /n suffix always matches (as
\* the empty string if need be) and is outside group 1.
RE_IPV4_search(line) ==
  LET starts == {i \in 1..Len(line) : IPv4Lens(line, i) # {}}
  IN  IF starts = {} THEN <<0, <<>>>>
      ELSE LET i == CHOOSE x \in starts : \A y \in starts : x <= y
               t == CHOOSE x \in IPv4Lens(line, i) :
                      \A y \in IPv4Lens(line, i) : LexGE(x, y)
           IN  <<i, t>>

\* int(p) of a string of decimal digits
RECURSIVE IntOf(_)
IntOf(p) ==
  IF p = <<>> THEN 0
  ELSE 10 * IntOf(SubSeq(p, 1, Len(p) - 1)) + DigitVal[p[Len(p)]]

NoIp == <<>>

\* extract_ipv4: group 1 of the first match, or None (NoIp) when there is no
\* match or a part is outside 0..255
extract_ipv4(line) ==
  LET m == RE_IPV4_search(line)
  IN  IF m[1] = 0 THEN NoIp
      ELSE LET i == m[1]
               t == m[2]
               parts == << SubSeq(line, i, i + t[1] - 1),
                           SubSeq(line, i + t[1] + 1, i + t[1] + t[2]),
                           SubSeq(line, i + t[1] + t[2] + 2,
                                        i + t[1] + t[2] + t[3] + 1),
                           SubSeq(line, i + t[1] + t[2] + t[3] + 3,
                                        i + t[1] + t[2] + t[3] + t[4] + 2) >>
           IN  IF \E k \in 1..4 : ~(0 <= IntOf(parts[k]) /\ IntOf(parts[k]) <= 255)
               THEN NoIp
               ELSE SubSeq(line, i, i + t[1] + t[2] + t[3] + t[4] + 2)

(***************************************************************************)
(* collect_candidates                                                       *)
(***************************************************************************)
\* variant of IsDuplicate: the check of seen left out
IsDuplicateNever(line, seen) == FALSE

\* line 163: the line was seen before
IsDuplicate(line, seen) == line \in seen

\* the loop of collect_candidates from line k (1-based) of the text on, with
\* the set seen and the list candidates built so far; idx is 0-based
RECURSIVE CollectFrom(_, _, _, _)
CollectFrom(lines, k, seen, acc) ==
  IF k > Len(lines) THEN acc
  ELSE LET line == strip(lines[k])
           tag  == primary_tag_of_line(line)
           ip   == extract_ipv4(line)
       IN  IF line = <<>> THEN CollectFrom(lines, k + 1, seen, acc)
           ELSE IF ~PAT_TAG_search(line) THEN CollectFrom(lines, k + 1, seen, acc)
           ELSE IF IsDuplicate(line, seen) THEN CollectFrom(lines, k + 1, seen, acc)
           ELSE IF tag = NoTag THEN CollectFrom(lines, k + 1, seen \cup {line}, acc)
           ELSE IF ip = NoIp THEN CollectFrom(lines, k + 1, seen \cup {line}, acc)
           ELSE CollectFrom(lines, k + 1, seen \cup {line},
                            Append(acc, [idx |-> k - 1, line |-> line,
                                         tag |-> tag, ip |-> ip]))

collect_candidates(lines) == CollectFrom(lines, 1, {}, <<>>)

(***************************************************************************)
(* The reachability prober.  What the network answers to one probe is an    *)
(* input: the ping (exit status 0, another status, or the subprocess call   *)
(* raising, time-out included) and, per port, whether create_connection     *)
(* connects or raises.                                                      *)
(***************************************************************************)
PingOutcomes == {"zero", "nonzero", "raises"}

ConnectOutcomes == {"connects", "raises"}

\* ping_host: True only for exit status 0; any exception gives False
ping_host(ping) == ping = "zero"

\* tcp_connect over ports (80, 443): True as soon as one port connects
tcp_connect(conn) == \E k \in 1..Len(conn) : conn[k] = "connects"

\* is_reachable: ping first, the TCP connects only when the ping fails
is_reachable(ping, conn) ==
  IF ping_host(ping) THEN TRUE ELSE tcp_connect(conn)

(***************************************************************************)
(* Sorting and output.                                                      *)
(***************************************************************************)
\* t inserted into the sequence s, sorted by idx, after the entries with an
\* idx not larger (list.sort is stable)
RECURSIVE InsertByIdx(_, _)
InsertByIdx(s, t) ==
  IF s = <<>> THEN <<t>>
  ELSE IF s[Len(s)].idx <= t.idx THEN Append(s, t)
  ELSE Append(InsertByIdx(SubSeq(s, 1, Len(s) - 1), t), s[Len(s)])

\* variant of SortByIdx: the lists left in the order of acceptance
SortByIdxNone(s) == s

\* saved[c].sort(key=lambda t: t[0])
RECURSIVE SortByIdx(_)
SortByIdx(s) ==
  IF s = <<>> THEN <<>>
  ELSE InsertByIdx(SortByIdx(SubSeq(s, 1, Len(s) - 1)), s[Len(s)])

\* the lines of the entries of one country
LinesOf(s) == [k \in 1..Len(s) |-> s[k].line]

\* variant of OutputLinesFrom: the countries taken from the last to the first
RECURSIVE OutputLinesReversed(_, _)
OutputLinesReversed(sv, k) ==
  IF k > Len(COUNTRIES) THEN <<>>
  ELSE OutputLinesReversed(sv, k + 1) \o LinesOf(sv[COUNTRIES[k]])

\* the list "lines" of write_output: the countries' lines, in COUNTRIES order
RECURSIVE OutputLinesFrom(_, _)
OutputLinesFrom(sv, k) ==
  IF k > Len(COUNTRIES) THEN <<>>
  ELSE LinesOf(sv[COUNTRIES[k]]) \o OutputLinesFrom(sv, k + 1)

OutputLines(sv) == OutputLinesFrom(sv, 1)

\* sum(len(v) for v in saved.values())
RECURSIVE TotalFrom(_, _)
TotalFrom(sv, k) ==
  IF k > Len(COUNTRIES) THEN 0
  ELSE Len(sv[COUNTRIES[k]]) + TotalFrom(sv, k + 1)

\* variant of total_saved: one too many
total_savedPlusOne(sv) == TotalFrom(sv, 1) + 1

\* variant of total_saved: nothing is ever counted
total_savedNone(sv) == 0 * TotalFrom(sv, 1)

total_saved(sv) == TotalFrom(sv, 1)

(***************************************************************************)
(* The lines the source texts are built from.                               *)
(***************************************************************************)
\* a plain SG line: '1.1.1.1#sg'
LineSg == <<"1", ".", "1", ".", "1", ".", "1", "#", "s", "g">>

\* the same line with surrounding whitespace: ' 1.1.1.1#sg '
LineSgPad == <<" ", "1", ".", "1", ".", "1", ".", "1", "#", "s", "g", " ">>

\* two tags, the first in upper case: '2.2.2.2 #SG #hk'
LineSgHk ==
  <<"2", ".", "2", ".", "2", ".", "2",
     " ", "#", "S", "G", " ", "#", "h", "k">>

\* a plain HK line: '4.4.4.4#hk'
LineHk == <<"4", ".", "4", ".", "4", ".", "4", "#", "h", "k">>

\* #sg only as the start of a longer word, #hk as a token: '3.3.3.3 #sgx #hk'
LineSgxHk ==
  <<"3", ".", "3", ".", "3", ".", "3", " ",
     "#", "s", "g", "x", " ", "#", "h", "k">>

\* no tag as a token: '6.6.6.6#sgx'
LineSgx == <<"6", ".", "6", ".", "6", ".", "6", "#", "s", "g", "x">>

\* a part above 255: '999.1.1.1#jp'
LineBadOctet == <<"9", "9", "9", ".", "1", ".", "1", ".", "1", "#", "j", "p">>

\* an address with a CIDR suffix: '5.5.5.5/24#kr'
LineCidr ==
  <<"5", ".", "5", ".", "5", ".",
     "5", "/", "2", "4", "#", "k", "r">>

\* a run of four digits before the first dot: '1234.5.6.7#tw'
LineLongRun ==
  <<"1", "2", "3", "4", ".", "5",
     ".", "6", ".", "7", "#", "t", "w">>

\* a tag and no address: '#tw'
LineNoIp == <<"#", "t", "w">>

\* whitespace only: ' '
LineBlank == <<" ">>

\* the lines of the texts the extractor is checked on
RawLines == {LineSg, LineSgPad, LineSgHk, LineHk, LineSgxHk, LineSgx,
             LineBadOctet, LineCidr, LineLongRun, LineNoIp, LineBlank}

\* the lines of the texts the whole pipeline is run on
SchedLines == {LineSg, LineSgPad, LineSgHk, LineHk}

\* the sequences over S of length at most n
SeqsUpTo(S, n) == UNION {[1..k -> S] : k \in 0..n}

RawTexts == SeqsUpTo(RawLines, MaxRawLines)

SchedTexts == SeqsUpTo(SchedLines, MaxLines)

\* the quota tables the pipeline is run with: the shape of MAX_PER_COUNTRY
\* (one quota for sg, one for the other countries), with small quotas, zero
\* included, in place of 100 and 50
QuotaTables ==
  {[c \in CountrySet |-> IF c = "sg" THEN a ELSE b] :
     a \in 0..MaxQuota, b \in 0..(MaxQuota - 1)}

(***************************************************************************)
(* State.                                                                   *)
(***************************************************************************)
VARIABLES
  remote,           \* what fetch_text will get: [ok, text]
  MAX_PER_COUNTRY,  \* the quota table of the run
  pc,               \* where the main thread is
  text,             \* main: the fetched text, as its lines
  candidates,       \* main: the list collect_candidates returned
  futures,          \* futures[i]: the Future of candidates[i], [state, result],
                    \* and faulted: an exception was raised inside its probe
  yielded,          \* the futures as_completed has yielded so far
  saved,            \* run_concurrent_tests: country -> list of [idx, line]
  tested,           \* run_concurrent_tests: the counter tested
  cursor,           \* position of the cancel loop in list(futures.keys())
  out_file,         \* the lines of the output file
  exit_code         \* the exit status of the process, read once pc = "exit"

vars == <<remote, MAX_PER_COUNTRY, pc, text, candidates, futures, yielded,
          saved, tested, cursor, out_file, exit_code>>

\* the output file as a previous run left it
OldContent == << <<"o", "l", "d">> >>

\* the futures in a given state of concurrent.futures.Future
InState(st) == {i \in 1..Len(futures) : futures[i].state = st}

\* variant of workers: max(1, ...) left out
workersNone(cands) == IF MAX_WORKERS < 0 THEN MAX_WORKERS ELSE 0

\* variant of workers: one worker per candidate, MAX_WORKERS ignored
workersPerCandidate(cands) == IF Len(cands) > 1 THEN Len(cands) ELSE 1

\* workers = min(MAX_WORKERS, max(1, len(candidates)))
workers(cands) ==
  LET n == IF Len(cands) > 1 THEN Len(cands) ELSE 1
  IN  IF MAX_WORKERS < n THEN MAX_WORKERS ELSE n

\* variant of Accepts: the quota is not looked at
AcceptsNoQuota(ok, sv, tag, quota) == ok

\* variant of Accepts: the outcome of the probe is not looked at
AcceptsAnyOutcome(ok, sv, tag, quota) == Len(sv[tag]) < quota[tag]
\* the acceptance test stopping one short of the quota
AcceptsOneShort(ok, sv, tag, quota) == ok /\ Len(sv[tag]) + 1 < quota[tag]

\* the acceptance test reading any country's quota instead of the
\* candidate's own
AcceptsBorrowing(ok, sv, tag, quota) ==
  ok /\ \E c \in CountrySet : Len(sv[c]) < quota[c]

\* lines 204-206: the outcome of a completed probe is saved
Accepts(ok, sv, tag, quota) == ok /\ Len(sv[tag]) < quota[tag]
\* the all-full test that never finds the quotas filled
AllFullNever(sv, quota) == \E k \in 1..Len(COUNTRIES) :
                              Len(sv[COUNTRIES[k]]) > Len(sv[COUNTRIES[k]])

\* variant of AllFull: any() in place of all()
AllFullAny(sv, quota) == \E k \in 1..Len(COUNTRIES) :
                            Len(sv[COUNTRIES[k]]) >= quota[COUNTRIES[k]]

\* line 209: every country has its quota
AllFull(sv, quota) == \A k \in 1..Len(COUNTRIES) :
                         Len(sv[COUNTRIES[k]]) >= quota[COUNTRIES[k]]

InitCommon ==
  /\ MAX_PER_COUNTRY \in QuotaTables
  /\ pc = "fetch"
  /\ text = <<>>
  /\ candidates = <<>>
  /\ futures = <<>>
  /\ yielded = {}
  /\ saved = [c \in CountrySet |-> <<>>]
  /\ tested = 0
  /\ cursor = 0
  /\ out_file = OldContent
  /\ exit_code = 0

Init ==
  /\ remote \in [ok : {TRUE}, text : SchedTexts] \cup {[ok |-> FALSE, text |-> <<>>]}
  /\ InitCommon

(***************************************************************************)
(* main, up to the call of run_concurrent_tests.                            *)
(***************************************************************************)
\* lines 235-239: fetch_text returns the text or raises, and main exits 1
main_fetch ==
  /\ pc = "fetch"
  /\ IF remote.ok
       THEN /\ text' = remote.text
            /\ pc' = "collect"
            /\ UNCHANGED exit_code
       ELSE /\ pc' = "exit"
            /\ exit_code' = 1
            /\ UNCHANGED text
  /\ UNCHANGED <<remote, MAX_PER_COUNTRY, candidates, futures, yielded, saved,
                 tested, cursor, out_file>>

\* lines 241-244, and lines 183-186 of run_concurrent_tests
main_collect ==
  /\ pc = "collect"
  /\ candidates' = collect_candidates(text)
  /\ IF candidates' = <<>>
       THEN pc' = "exit" /\ exit_code' = 0
       ELSE pc' = "submit" /\ UNCHANGED exit_code
  /\ saved' = [c \in CountrySet |-> <<>>]
  /\ tested' = 0
  /\ UNCHANGED <<remote, MAX_PER_COUNTRY, text, futures, yielded, cursor, out_file>>

(***************************************************************************)
(* run_concurrent_tests: the main thread.                                   *)
(***************************************************************************)
\* lines 188-191: one ex.submit; the future starts PENDING in the work queue
rct_submit ==
  /\ pc = "submit"
  /\ futures' = Append(futures, [state |-> "PENDING", result |-> "none", faulted |-> FALSE])
  /\ pc' = IF Len(futures') = Len(candidates) THEN "as_completed" ELSE "submit"
  /\ UNCHANGED <<remote, MAX_PER_COUNTRY, text, candidates, yielded, saved,
                 tested, cursor, out_file, exit_code>>

\* a fut.result() whose exception is taken for a reachable candidate
result_okOnFault(res) == res # "False"

\* lines 200-203: ok is what fut.result() returns, False when it raises
result_ok(res) == res = "True"

\* an as_completed that yields finished futures again
as_completedAgain == InState("FINISHED")

\* line 194: as_completed yields each finished future once
as_completed == InState("FINISHED") \ yielded

\* lines 194-216: as_completed yields a finished future, and the loop body
\* runs on it
rct_collect(i) ==
  /\ pc = "as_completed"
  /\ i \in as_completed
  /\ LET tag == candidates[i].tag
         ok  == result_ok(futures[i].result)
         sv  == IF Accepts(ok, saved, tag, MAX_PER_COUNTRY)
                  THEN [saved EXCEPT ![tag] = Append(@, [idx |-> candidates[i].idx,
                                                         line |-> candidates[i].line])]
                  ELSE saved
     IN  /\ saved' = sv
         /\ IF AllFull(sv, MAX_PER_COUNTRY)
              THEN pc' = "cancel" /\ cursor' = 1
              ELSE /\ pc' = IF yielded \cup {i} = 1..Len(futures)
                              THEN "shutdown" ELSE "as_completed"
                   /\ UNCHANGED cursor
  /\ tested' = tested + 1
  /\ yielded' = yielded \cup {i}
  /\ UNCHANGED <<remote, MAX_PER_COUNTRY, text, candidates, futures, out_file,
                 exit_code>>

\* a cancel() that leaves every future as it is
cancelNoop(st) == st

\* lines 211-215: Future.cancel() takes effect on a future still in the work
\* queue, a running or finished one stays as it is
cancel(st) == IF st = "PENDING" THEN "CANCELLED" ELSE st

\* lines 210-216: one round of the cancel loop, then the break leaves the
\* with block
rct_cancel ==
  /\ pc = "cancel"
  /\ futures' = [futures EXCEPT ![cursor].state = cancel(@)]
  /\ IF cursor = Len(futures)
       THEN pc' = "shutdown" /\ cursor' = 0
       ELSE pc' = "cancel" /\ cursor' = cursor + 1
  /\ UNCHANGED <<remote, MAX_PER_COUNTRY, text, candidates, yielded, saved,
                 tested, out_file, exit_code>>

\* the work queue is empty and no worker runs a probe: shutdown(wait=True)
\* can return
PoolIdle == InState("RUNNING") = {} /\ InState("PENDING") = {}

\* lines 187, 218-221: the with block exits through shutdown(wait=True), then
\* the sort and the return
rct_return ==
  /\ pc = "shutdown"
  /\ PoolIdle
  /\ saved' = [c \in CountrySet |-> SortByIdx(saved[c])]
  /\ pc' = "report"
  /\ UNCHANGED <<remote, MAX_PER_COUNTRY, text, candidates, futures, yielded,
                 tested, cursor, out_file, exit_code>>

(***************************************************************************)
(* The worker threads of the ThreadPoolExecutor.                            *)
(***************************************************************************)
\* a worker takes the oldest work item that was not cancelled; the pool has
\* at most max_workers threads, each running one item
worker_start(i) ==
  /\ i \in InState("PENDING")
  /\ \A j \in InState("PENDING") : i <= j
  /\ Cardinality(InState("RUNNING")) < workers(candidates)
  /\ futures' = [futures EXCEPT ![i].state = "RUNNING"]
  /\ UNCHANGED <<remote, MAX_PER_COUNTRY, pc, text, candidates, yielded, saved,
                 tested, cursor, out_file, exit_code>>
\* line 190: what the future of is_reachable(ip) holds when the task ends
task_result(ping, conn, fault) ==
  IF fault THEN "raised"
  ELSE IF is_reachable(ping, conn) THEN "True"
  ELSE "False"

\* an exception was raised inside the probe: by the task, by the ping
\* subprocess (lines 109-119), or by a connect that was attempted (lines
\* 124-129; the second port is tried only after the first raised)
Faulted(ping, conn, fault) ==
  fault \/ ping = "raises" \/ (~ping_host(ping) /\ conn[1] = "raises")

\* the future of a task that ended
Finished(ping, conn, fault) ==
  [state |-> "FINISHED", result |-> task_result(ping, conn, fault),
   faulted |-> Faulted(ping, conn, fault)]

\* the ways a task can end, over what its ping and its connects do
ProbeEnds ==
  {Finished(ping, conn, fault) :
     ping \in PingOutcomes, conn \in [1..2 -> ConnectOutcomes], fault \in BOOLEAN}

\* a probe task that appends its own candidate to the result set when it
\* finds it reachable
worker_finishAppending(i) ==
  /\ i \in InState("RUNNING")
  /\ \E fin \in ProbeEnds :
           /\ futures' = [futures EXCEPT ![i] = fin]
           /\ saved' = IF fin.result = "True"
                         THEN [saved EXCEPT ![candidates[i].tag] =
                                 Append(@, [idx |-> candidates[i].idx,
                                            line |-> candidates[i].line])]
                         ELSE saved
  /\ UNCHANGED <<remote, MAX_PER_COUNTRY, pc, text, candidates, yielded,
                 tested, cursor, out_file, exit_code>>

\* is_reachable(ip) returns, or the task raises
worker_finish(i) ==
  /\ i \in InState("RUNNING")
  /\ \E fin \in ProbeEnds : futures' = [futures EXCEPT ![i] = fin]
  /\ UNCHANGED <<remote, MAX_PER_COUNTRY, pc, text, candidates, yielded, saved,
                 tested, cursor, out_file, exit_code>>

(***************************************************************************)
(* main, after run_concurrent_tests.                                        *)
(***************************************************************************)
\* lines 247-257 and write_output: nothing saved, or the file is written; an
\* open() or write() that raises ends the process with a traceback, status 1
main_report ==
  /\ pc = "report"
  /\ IF total_saved(saved) = 0
       THEN exit_code' = 0 /\ UNCHANGED out_file
       ELSE \E writable \in BOOLEAN :
              IF writable
                THEN out_file' = OutputLines(saved) /\ exit_code' = 0
                ELSE exit_code' = 1 /\ UNCHANGED out_file
  /\ pc' = "exit"
  /\ UNCHANGED <<remote, MAX_PER_COUNTRY, text, candidates, futures, yielded,
                 saved, tested, cursor>>

Next ==
  \/ main_fetch
  \/ main_collect
  \/ rct_submit
  \/ \E i \in 1..Len(futures) : rct_collect(i)
  \/ rct_cancel
  \/ rct_return
  \/ \E i \in 1..Len(futures) : worker_start(i)
  \/ \E i \in 1..Len(futures) : worker_finish(i)
  \/ main_report

Spec == Init /\ [][Next]_vars

(***************************************************************************)
(* The line extractor alone: main up to the return of collect_candidates,   *)
(* on every text of at most MaxRawLines lines over RawLines.                *)
(***************************************************************************)
InitExtract ==
  /\ remote \in [ok : {TRUE}, text : RawTexts]
  /\ InitCommon

NextExtract ==
  \/ main_fetch
  \/ main_collect

SpecExtract == InitExtract /\ [][NextExtract]_vars

(***************************************************************************)
(* Vocabulary of the properties.                                            *)
(***************************************************************************)
\* run_concurrent_tests has returned
Returned == pc = "report" \/ (pc = "exit" /\ futures # <<>>)

\* this run has written the output file
Written == pc = "exit" /\ out_file # OldContent

\* the entry (idx, line) of candidate i
Entry(i) == [idx |-> candidates[i].idx, line |-> candidates[i].line]

\* candidate i is in a result set
InSaved(i) == \E c \in CountrySet : \E k \in 1..Len(saved[c]) : saved[c][k] = Entry(i)

\* the rank of a country in COUNTRIES
Prio(c) == CHOOSE k \in 1..Len(COUNTRIES) : COUNTRIES[k] = c

\* the original index of the candidate with the given line
SourceIdx(l) ==
  LET k == CHOOSE j \in 1..Len(candidates) : candidates[j].line = l
  IN  candidates[k].idx

\* the candidates of country c, as positions in the candidate list
CandidatesOf(c) == {i \in 1..Len(candidates) : candidates[i].tag = c}

Min(a, b) == IF a < b THEN a ELSE b

(***************************************************************************)
(* C1: in every state of a run, every country has at most as many accepted  *)
(* entries as its quota, so a country with quota 0 has none.                *)
(***************************************************************************)
C1_QuotaRespected ==
  \A c \in CountrySet : Len(saved[c]) <= MAX_PER_COUNTRY[c]

\* a reachable candidate was collected when its country, with a positive
\* quota, was full, and was dropped
C1_Witness ==
  \E i \in yielded :
     /\ futures[i].result = "True"
     /\ ~InSaved(i)
     /\ MAX_PER_COUNTRY[candidates[i].tag] > 0
     /\ Len(saved[candidates[i].tag]) = MAX_PER_COUNTRY[candidates[i].tag]

(***************************************************************************)
(* C2: once every quota is filled and the loop is left, the scheduler       *)
(* returns without waiting for the probes still in flight: at the exit of   *)
(* the with block (here after at least one entry was accepted) the return   *)
(* is always possible.                                                      *)
(***************************************************************************)
C2_ReturnsWithoutWaiting ==
  (pc = "shutdown" /\ AllFull(saved, MAX_PER_COUNTRY) /\ total_saved(saved) > 0)
    => ENABLED rct_return

C4_CountryBlocksInOrder ==
  Written =>
    \A p, q \in 1..Len(out_file) :
       p < q => Prio(primary_tag_of_line(out_file[p]))
                  <= Prio(primary_tag_of_line(out_file[q]))

\* a file was written with an SG line after which comes an HK line that
\* stood before it in the source
C4_Witness ==
  /\ Written
  /\ \E p, q \in 1..Len(out_file) :
        /\ p < q
        /\ primary_tag_of_line(out_file[p]) = "sg"
        /\ primary_tag_of_line(out_file[q]) = "hk"
        /\ SourceIdx(out_file[q]) < SourceIdx(out_file[p])

(***************************************************************************)
(* C5: no two candidates have the same trimmed line, and no two lines of    *)
(* the written file are identical.                                          *)
(***************************************************************************)
C5_NoDuplicateLines ==
  /\ \A i, j \in 1..Len(candidates) :
        i # j => candidates[i].line # candidates[j].line
  /\ Written =>
       \A p, q \in 1..Len(out_file) : p # q => out_file[p] # out_file[q]

\* the source had two different raw lines with the same trimmed content, and
\* the file was written with that content in it
C5_Witness ==
  /\ Written
  /\ \E a, b \in 1..Len(text) :
        /\ a # b
        /\ text[a] # text[b]
        /\ strip(text[a]) = strip(text[b])
        /\ \E p \in 1..Len(out_file) : out_file[p] = strip(text[a])

(***************************************************************************)
(* C6: a candidate whose probe returned unreachable is in no result set and *)
(* not in the written file.                                                 *)
(***************************************************************************)
C6_UnreachableNeverSaved ==
  \A i \in 1..Len(futures) :
     futures[i].result = "False" =>
       /\ ~InSaved(i)
       /\ Written => \A p \in 1..Len(out_file) : out_file[p] # candidates[i].line

\* an unreachable candidate of a country that ended below its quota was
\* collected, and the file was written
C6_Witness ==
  /\ Written
  /\ \E i \in yielded :
        /\ futures[i].result = "False"
        /\ Len(saved[candidates[i].tag]) < MAX_PER_COUNTRY[candidates[i].tag]

(***************************************************************************)
(* C7: with a prober that always returns reachable, run_concurrent_tests    *)
(* returns, for every country, exactly min(quota, number of its candidates) *)
(* entries, and the written file has that many lines of the country.        *)
(***************************************************************************)
\* no probe of the run returned unreachable or raised
AlwaysReachable ==
  \A i \in 1..Len(futures) :
     futures[i].state = "FINISHED" => futures[i].result = "True"

\* the number of candidates of c the quota leaves room for
QuotaSize(c) == Min(MAX_PER_COUNTRY[c], Cardinality(CandidatesOf(c)))

C7_QuotaSizedOutput ==
  (Returned /\ AlwaysReachable) =>
     /\ \A c \in CountrySet : Len(saved[c]) = QuotaSize(c)
     /\ Written =>
          \A c \in CountrySet :
             Cardinality({p \in 1..Len(out_file) :
                            primary_tag_of_line(out_file[p]) = c}) = QuotaSize(c)

\* a file was written in a run where every probe was reachable and a country
\* with a positive quota had more candidates than its quota
C7_Witness ==
  /\ Written
  /\ AlwaysReachable
  /\ \E c \in CountrySet :
        /\ MAX_PER_COUNTRY[c] > 0
        /\ Cardinality(CandidatesOf(c)) > MAX_PER_COUNTRY[c]

\* the entries of the candidates of country c, in source order
EntriesInSourceOrder(c) ==
  LET own == SelectSeq(candidates, LAMBDA x : x.tag = c)
  IN  [k \in 1..Len(own) |-> [idx |-> own[k].idx, line |-> own[k].line]]

\* C7 as stated: with a prober that always returns reachable the content is
\* the same in every run, the candidate list of each country cut at the quota
C7_SameContentEveryRun ==
  (Returned /\ AlwaysReachable) =>
     \A c \in CountrySet :
        saved[c] = SubSeq(EntriesInSourceOrder(c), 1, QuotaSize(c))

(***************************************************************************)
(* C8: at every moment at most MAX_WORKERS probes are executing.            *)
(***************************************************************************)
C8_AtMostMaxWorkersRunning ==
  Cardinality(InState("RUNNING")) <= MAX_WORKERS

\* the run has more candidates than MAX_WORKERS, MAX_WORKERS probes execute
\* and a submitted one waits in the queue
C8_Witness ==
  /\ Len(candidates) > MAX_WORKERS
  /\ Cardinality(InState("RUNNING")) = MAX_WORKERS
  /\ InState("PENDING") # {}

(***************************************************************************)
(* C9: the returned count tested is the number of probes that completed     *)
(* during the run, early termination included (here in the runs that        *)
(* accepted at least one entry).                                            *)
(***************************************************************************)
C9_TestedCountsCompleted ==
  (Returned /\ total_saved(saved) > 0) =>
     tested = Cardinality(InState("FINISHED"))

(***************************************************************************)
(* C10: the country of every candidate is the highest-priority one among    *)
(* the tags that stand in its line as distinct tokens.                      *)
(***************************************************************************)
C10_TagIsFirstTokenTag ==
  \A k \in 1..Len(candidates) :
     /\ candidates[k].tag \in TokenTags(candidates[k].line)
     /\ \A c \in TokenTags(candidates[k].line) : Prio(candidates[k].tag) <= Prio(c)

(***************************************************************************)
(* C11: the output file is written only if an entry was accepted: while no  *)
(* result set holds an entry, and in a run that ends so, the file is as it  *)
(* was before the run.                                                      *)
(***************************************************************************)
C11_WrittenOnlyIfAccepted ==
  (\A c \in CountrySet : saved[c] = <<>>) => out_file = OldContent

\* a run whose probes were all collected and none accepted has exited
C11_Witness ==
  /\ pc = "exit"
  /\ futures # <<>>
  /\ yielded = 1..Len(futures)
  /\ \A c \in CountrySet : saved[c] = <<>>
  /\ \E c \in CountrySet : MAX_PER_COUNTRY[c] > 0 /\ CandidatesOf(c) # {}

(***************************************************************************)
(* C12: the exit status is 0 on success or when there is nothing to do, 1   *)
(* when the fetch fails and 2 when the output file cannot be written.       *)
(***************************************************************************)
\* the run accepted entries and its write_output raised
WriteFailed ==
  /\ pc = "exit"
  /\ \E c \in CountrySet : saved[c] # <<>>
  /\ out_file = OldContent

C12_ExitCodes ==
  pc = "exit" =>
    exit_code = IF ~remote.ok THEN 1 ELSE IF WriteFailed THEN 2 ELSE 0

\* C12 as the code has it: an output file that cannot be written ends the
\* process with the status of an uncaught exception, 1
C12_ExitCodesOfMain ==
  pc = "exit" =>
    exit_code = IF ~remote.ok THEN 1 ELSE IF WriteFailed THEN 1 ELSE 0

\* a run that accepted entries ended on a write_output that raised
C12_Witness == WriteFailed /\ exit_code = 1

\* the place of the main thread on its way through main, later places lower
PcRank ==
  CASE pc = "fetch" -> 7
    [] pc = "collect" -> 6
    [] pc = "submit" -> 5
    [] pc = "as_completed" -> 4
    [] pc = "cancel" -> 3
    [] pc = "shutdown" -> 2
    [] pc = "report" -> 1
    [] OTHER -> 0

\* what is left of the run: the places main has yet to pass, the candidates
\* yet to submit, what each future has yet to go through (queued, running,
\* finished and waiting for as_completed), the rounds left of the cancel loop
RunMeasure ==
  100 * PcRank
  + 4 * (Len(candidates) - Len(futures))
  + 3 * Cardinality(InState("PENDING"))
  + 2 * Cardinality(InState("RUNNING"))
  + Cardinality(InState("FINISHED") \ yielded)
  + (IF pc = "cancel" THEN Len(futures) - cursor + 1 ELSE 0)

\* C13: provided every dispatched probe completes, run_concurrent_tests
\* returns for every candidate list: inside it some thread can always take a
\* step (the main thread, a free worker, or a running probe that ends), and
\* every step uses up some of what is left of the run, so the steps run out
\* and the run is past the return; and when the quotas were never all
\* filled, it returns once every candidate was submitted, probed and
\* collected, with whatever was accepted.
C13_EventuallyReturns ==
  /\ [](pc \in {"submit", "as_completed", "cancel", "shutdown"} => ENABLED Next)
  /\ [][RunMeasure' < RunMeasure /\ RunMeasure' >= 0]_vars
  /\ [](Returned /\ ~AllFull(saved, MAX_PER_COUNTRY) =>
          /\ yielded = 1..Len(futures)
          /\ InState("FINISHED") = 1..Len(futures)
          /\ Len(futures) = Len(candidates))

C13_Witness ==
  /\ Returned
  /\ yielded = 1..Len(futures)
  /\ \E c \in CountrySet :
        CandidatesOf(c) # {} /\ Len(saved[c]) < MAX_PER_COUNTRY[c]

(***************************************************************************)
(* C14: when the scheduler processes a completed probe, the candidate is    *)
(* appended iff the probe reported reachable and the count of its own       *)
(* country is below that country's quota at that moment; it goes to its     *)
(* own country's set only, and every other set stays as it was, whatever    *)
(* quota the other countries have left.                                     *)
(***************************************************************************)
C14_AcceptedIffReachableBelowOwnQuota ==
  [][\A i \in 1..Len(futures) :
       i \in yielded' \ yielded =>
         LET tag == candidates[i].tag
         IN  saved' = IF /\ futures[i].result = "True"
                         /\ Len(saved[tag]) < MAX_PER_COUNTRY[tag]
                        THEN [saved EXCEPT ![tag] = Append(@, Entry(i))]
                        ELSE saved]_vars

\* a reachable candidate was dropped at its full country while another
\* country had quota to spare, and a candidate was accepted
C14_Witness ==
  /\ \E i \in yielded :
       /\ futures[i].result = "True"
       /\ ~InSaved(i)
       /\ \E c \in CountrySet \ {candidates[i].tag} :
            Len(saved[c]) < MAX_PER_COUNTRY[c]
  /\ \E j \in yielded : InSaved(j)

\* the entries of a result set, whatever their order
EntriesOf(c) == {saved[c][k] : k \in 1..Len(saved[c])}

\* the scheduler has processed a probe and every country has its quota: the
\* test of line 209 has been true
QuotasObservedFull ==
  /\ tested > 0
  /\ \A c \in CountrySet : Len(saved[c]) >= MAX_PER_COUNTRY[c]

Starts(i) == futures[i].state = "PENDING" /\ futures'[i].state = "RUNNING"

(***************************************************************************)
(* C16, as stated: from the state in which the last quota is filled         *)
(* onwards, no probe is started for a candidate whose probe had not begun.  *)
(***************************************************************************)
C16_NoProbeStartedAfterAllFull ==
  [][QuotasObservedFull /\ total_saved(saved) > 0 =>
       \A i \in 1..Len(futures) : ~Starts(i)]_vars

(***************************************************************************)
(* C16, as the code has it: once the quotas are filled the scheduler        *)
(* cancels the queued futures one by one; a free worker may still start a   *)
(* probe the cancel loop has not reached, but none that it has passed, and  *)
(* none at all once the loop has ended.                                     *)
(***************************************************************************)
C16_NoProbeStartedOnceCancelPassed ==
  /\ [][QuotasObservedFull =>
          \A i \in 1..Len(futures) : Starts(i) => pc = "cancel" /\ i >= cursor]_vars
  /\ [](pc = "cancel" => \A j \in 1..(cursor - 1) : futures[j].state # "PENDING")
  /\ [](QuotasObservedFull /\ pc \in {"shutdown", "report", "exit"} =>
          InState("PENDING") = {})

\* in the cancel loop: a queued future was cancelled, one the loop has not
\* reached is still queued, and a worker is free to take it
C16_Witness ==
  /\ pc = "cancel"
  /\ QuotasObservedFull
  /\ \E j \in 1..(cursor - 1) : futures[j].state = "CANCELLED"
  /\ \E i \in cursor..Len(futures) : futures[i].state = "PENDING"
  /\ Cardinality(InState("RUNNING")) < workers(candidates)

\* how far a future has come: queued, running, ended
StateRank(st) == IF st = "PENDING" THEN 0 ELSE IF st = "RUNNING" THEN 1 ELSE 2

\* the places of candidate i in the result sets
PlacesOf(i) ==
  {<<c, k>> \in CountrySet \X (1..Len(candidates)) :
     k <= Len(saved[c]) /\ saved[c][k] = Entry(i)}

(***************************************************************************)
(* C17: each candidate is submitted once (one future, the i-th for the      *)
(* i-th candidate, all of them submitted by the return) and never           *)
(* re-attempted (a future only moves on, and an ended one stays as it       *)
(* ended); its outcome is processed at most once (the count of processed    *)
(* outcomes is the number of futures yielded, one per step), and not at     *)
(* all only when the run ended early on full quotas; so no candidate is     *)
(* twice in the result sets.                                                *)
(***************************************************************************)
C17_SubmittedAndProcessedOnce ==
  /\ [](Len(futures) <= Len(candidates))
  /\ [](Returned => Len(futures) = Len(candidates))
  /\ [][\A i \in 1..Len(futures) :
          /\ StateRank(futures'[i].state) >= StateRank(futures[i].state)
          /\ StateRank(futures[i].state) = 2 => futures'[i] = futures[i]]_vars
  /\ [](tested = Cardinality(yielded) /\ yielded \subseteq InState("FINISHED"))
  /\ [][yielded \subseteq yielded' /\ Cardinality(yielded' \ yielded) <= 1]_vars
  /\ [](Returned /\ yielded # 1..Len(futures) => QuotasObservedFull)
  /\ [](\A i \in 1..Len(candidates) :
          /\ Cardinality(PlacesOf(i)) <= 1
          /\ InSaved(i) => i \in yielded)

\* the scheduler returned early: an outcome was processed and its candidate
\* accepted, another candidate's outcome was never collected
C17_Witness ==
  /\ Returned
  /\ Len(futures) = Len(candidates)
  /\ \E i \in yielded : Cardinality(PlacesOf(i)) = 1
  /\ \E j \in 1..Len(futures) : j \notin yielded

\* a step of a worker thread: a future is taken from the queue or its probe
\* ends
WorkerStep ==
  \E i \in 1..Len(futures) :
    /\ i <= Len(futures')
    /\ futures'[i].state # futures[i].state
    /\ futures'[i].state \in {"RUNNING", "FINISHED"}

\* the countries whose result set has one more entry after this step
Grown == {c \in CountrySet : Len(saved'[c]) > Len(saved[c])}

(***************************************************************************)
(* C18: the quota check and the append are one serialized step of the one   *)
(* collecting thread: the steps of the worker threads leave the result      *)
(* sets and the completed-count unchanged, and a step appends at most one   *)
(* entry, to a country that was below its quota before that very step, so   *)
(* that no two acceptances rest on the same below-quota reading.            *)
(***************************************************************************)
C18_CheckAndAppendSerialized ==
  [][/\ WorkerStep => saved' = saved /\ tested' = tested /\ yielded' = yielded
     /\ Cardinality(Grown) <= 1
     /\ \A c \in Grown :
          /\ Len(saved'[c]) = Len(saved[c]) + 1
          /\ Len(saved[c]) < MAX_PER_COUNTRY[c]
          /\ tested' = tested + 1]_vars

\* two reachable candidates of one country with quota 1, both processed: one
\* was accepted and the other dropped
C18_Witness ==
  \E i, j \in yielded :
    /\ i # j
    /\ candidates[i].tag = candidates[j].tag
    /\ MAX_PER_COUNTRY[candidates[i].tag] = 1
    /\ futures[i].result = "True" /\ futures[j].result = "True"
    /\ InSaved(i) /\ ~InSaved(j)

(***************************************************************************)
(* C19, as stated: a probe in which the ping subprocess, a connect or the   *)
(* task itself raised is treated like an unreachable result: its candidate  *)
(* is not accepted.                                                         *)
(***************************************************************************)
C19_FaultedNeverAccepted ==
  \A i \in 1..Len(futures) : futures[i].faulted => ~InSaved(i)

(***************************************************************************)
(* C19, as the code has it: an exception of the ping or of a connect is     *)
(* the failure of that attempt and no more (the probe goes on to the next   *)
(* attempt and reports reachable when one succeeds, unreachable when none   *)
(* does); a task that raised is processed exactly like one that returned    *)
(* False: it is counted, its candidate is not accepted, and the scheduler   *)
(* goes on with the loop, to the next future, the cancel or the return.     *)
(***************************************************************************)
C19_FaultIsFailedAttempt ==
  /\ [](\A conn \in [1..2 -> ConnectOutcomes] :
          /\ is_reachable("raises", conn) = is_reachable("nonzero", conn)
          /\ is_reachable("raises", conn) = (conn # <<"raises", "raises">>))
  /\ [](\A i \in 1..Len(futures) :
          futures[i].result \in {"raised", "False"} =>
            futures[i].faulted /\ ~InSaved(i))
  /\ [][\A i \in 1..Len(futures) :
          (i \in yielded' \ yielded /\ futures[i].result \in {"raised", "False"}) =>
            /\ tested' = tested + 1
            /\ saved' = saved
            /\ pc' = IF AllFull(saved, MAX_PER_COUNTRY) THEN "cancel"
                     ELSE IF yielded' = 1..Len(futures) THEN "shutdown"
                     ELSE "as_completed"]_vars

\* a task raised, it was counted and its candidate left out, and the
\* scheduler went on to accept a candidate whose probe had met an exception
\* on its way to a successful attempt
C19_Witness ==
  /\ Returned
  /\ tested = Len(futures)
  /\ \E i \in yielded : futures[i].result = "raised" /\ ~InSaved(i)
  /\ \E j \in yielded : futures[j].faulted /\ futures[j].result = "True" /\ InSaved(j)

\* the candidates of country c whose probe reported reachable
ReachableOf(c) == {i \in CandidatesOf(c) : futures[i].result = "True"}

\* the candidates of country c whose probe never ran, of unknown reachability
UnprobedOf(c) == {i \in CandidatesOf(c) : futures[i].state = "CANCELLED"}

(***************************************************************************)
(* C20: when run_concurrent_tests has returned, the accepted count of every *)
(* country is min(quota, number of its reachable candidates), whichever of  *)
(* the candidates whose probe never ran are reachable; and a country with   *)
(* no more reachable candidates than its quota has every one of them in     *)
(* its result set, in the order of the source.                              *)
(***************************************************************************)
C20_AcceptedIsMinOfQuotaAndReachable ==
  Returned =>
    \A c \in CountrySet :
      /\ \A u \in 0..Cardinality(UnprobedOf(c)) :
           Len(saved[c]) = Min(MAX_PER_COUNTRY[c], Cardinality(ReachableOf(c)) + u)
      /\ Cardinality(ReachableOf(c)) <= MAX_PER_COUNTRY[c] =>
           /\ \A i \in ReachableOf(c) : Entry(i) \in EntriesOf(c)
           /\ Len(saved[c]) = Cardinality(ReachableOf(c))
           /\ \A k, l \in 1..Len(saved[c]) : k < l => saved[c][k].idx < saved[c][l].idx

\* a country with quota 2 whose first candidate was unreachable and whose
\* second was reachable: the second alone was accepted
C20_Witness ==
  /\ Returned
  /\ \E c \in CountrySet :
       /\ MAX_PER_COUNTRY[c] = 2
       /\ Len(saved[c]) = 1
       /\ \E i, j \in CandidatesOf(c) :
            /\ i < j
            /\ futures[i].result = "False"
            /\ futures[j].result = "True"
            /\ saved[c] = <<Entry(j)>>

====
